---- MODULE Spec2Model ----
(***************************************************************************)
(* AINE-DRL: the circular experience buffer (BatchTrajectory), its PPO     *)
(* specialisation (PPOTrajectory) and the agent's bookkeeping (Agent).     *)
(*                                                                         *)
(* Objects are records whose fields carry the names of the Python          *)
(* attributes; a method is an operator from the object (and the            *)
(* arguments) to  [err, self, ...] : the exception raised ("none" when     *)
(* the call returns) and the object as the call leaves it.  Python lists   *)
(* are functions over 0..n-1, so indices are the source's indices.         *)
(***************************************************************************)
EXTENDS Integers, Sequences, FiniteSets, TLC

VARIABLES
    traj,      \* a BatchTrajectory driven directly
    writes,    \* history: experiences written into traj since its last reset
    adds,      \* history: add calls that returned on traj since its last reset
    arg,       \* history: the experiences of the last add that returned on
               \* traj since its last reset
    ppo,       \* a PPOTrajectory
    given_log_prob, \* history: per slot, the action_log_prob handed to the
                    \* add call that wrote the base slot (None: not written)
    given_v_pred,   \* history: likewise for v_pred
    agent,     \* an Agent
    updates,   \* history: update calls that returned
    traced_terminations, \* history: of those, the ones in which environment 0
                         \* reported termination
    only_fifth,     \* history: so far environment 0 reported termination in
                    \* the 5th update that returned and in no other
    episode_reward, \* history: the rewards environment 0 handed in since its
                    \* last termination, summed
    episode_steps,  \* history: updates that returned since then
    finished,       \* history: episodes environment 0 finished since the
                    \* last log_data read
    finished_reward,\* history: the rewards of those episodes, summed
    finished_len,   \* history: the lengths of those episodes, summed
    grad_enabled,   \* torch's gradient mode
    train_calls,    \* history: calls of select_action_train
    inference_calls,\* history: calls of select_action_inference
    ran,            \* history: the path the last select_action ran and the
                    \* gradient mode it ran in
    net_call,  \* a call into network.py: the layer or network and its inputs
    net_result,\* <<what that call returned>>, and <<>> while it has not run
    log,       \* what the last read of log_data returned, and when
    network_state, \* the state of the agent's network: its weights
    saved,     \* <<the mapping state_dict returned last>>, <<>> before
    at_save,   \* the clock fields and the weights when it was returned
    loop,      \* the control loop: its summary frequency, the emissions
               \* and the drain iterations so far, and those of the last update
    ret,       \* what the last call was and how it ended
    prev       \* history: the trajectory call before the last one

trajVars == <<traj, writes, adds, arg>>
ppoVars == <<ppo, given_log_prob, given_v_pred>>
updateVars == <<updates, traced_terminations, only_fifth, episode_reward,
               episode_steps, finished, finished_reward, finished_len>>
selectVars == <<grad_enabled, train_calls, inference_calls, ran>>
netVars == <<net_call, net_result>>
logVars == <<log, loop>>
dictVars == <<network_state, saved, at_save>>

vars == <<traj, writes, adds, arg, ppo, given_log_prob, given_v_pred, agent,
          updates, traced_terminations, only_fifth, episode_reward,
          episode_steps, finished, finished_reward, finished_len,
          grad_enabled, train_calls,
          inference_calls, ran, net_call, net_result, log, network_state,
          saved, at_save, loop, ret, prev>>

(***************************************************************************)
(* Bounds of the model.                                                    *)
(***************************************************************************)
MaxCapacity == 4      \* max_num_exp ranges over 1..MaxCapacity
MaxNumEnvs == 2       \* num_envs ranges over 1..MaxNumEnvs
MaxAdds == 5          \* add calls explored between two resets
MaxNSteps == 3        \* PPOTrajectory's max_n_steps ranges over 1..MaxNSteps
MaxUpdates == 10      \* update calls explored
MaxSelects == 6       \* action-selection path calls explored

\* Python's None in a slot.  Every stored value of the model is >= 0.
None == -1

Min(a, b) == IF a <= b THEN a ELSE b

\* An Experience (state, action, reward, terminated, next_state); the five
\* fields of experience v are pairwise different values.
Experience(v) ==
    [state |-> 10 + v, action |-> 20 + v, reward |-> v,
     terminated |-> v % 2, next_state |-> 30 + v]

\* The experiences an environment hands in.
Experiences == {Experience(1), Experience(2)}

\* The lists of experiences an add call is given: every length from 0 to one
\* more than the largest num_envs.
ExperienceLists == UNION {[1..n -> Experiences] : n \in 0..(MaxNumEnvs + 1)}

\* The lists a PPOTrajectory.add call is given; its base buffer expects
\* lists of length 1.
PPOExperienceLists == UNION {[1..n -> Experiences] : n \in 0..2}

(***************************************************************************)
(* BatchTrajectory                                                         *)
(***************************************************************************)
\* A mutant of reset: recent_idx is left where it is.
BT_reset_keep_idx(self) ==
    [self EXCEPT
        !._count = 0,
        !.states = [i \in 0..(self.max_num_exp - 1) |-> None],
        !.actions = [i \in 0..(self.max_num_exp - 1) |-> None],
        !.rewards = [i \in 0..(self.max_num_exp - 1) |-> None],
        !.terminateds = [i \in 0..(self.max_num_exp - 1) |-> None],
        !.next_state_buffer = [i \in 0..(self.num_envs - 1) |-> None]]

\* reset(): the counters and every list are rebuilt.
BT_reset(self) ==
    [self EXCEPT
        !._count = 0,
        !.recent_idx = -1,
        !.states = [i \in 0..(self.max_num_exp - 1) |-> None],
        !.actions = [i \in 0..(self.max_num_exp - 1) |-> None],
        !.rewards = [i \in 0..(self.max_num_exp - 1) |-> None],
        !.terminateds = [i \in 0..(self.max_num_exp - 1) |-> None],
        !.next_state_buffer = [i \in 0..(self.num_envs - 1) |-> None]]

\* __init__(max_num_exp, num_envs); the assertion max_num_exp > 0 and
\* num_envs > 0 is the range the configurations are drawn from.
BT_init(max_num_exp, num_envs) ==
    BT_reset([num_envs |-> num_envs, max_num_exp |-> max_num_exp,
              _count |-> 0, recent_idx |-> -1,
              states |-> <<>>, actions |-> <<>>, rewards |-> <<>>,
              terminateds |-> <<>>, next_state_buffer |-> <<>>])

\* A mutant of the loop body: the count is not capped at max_num_exp.
BT_add_one_uncapped(self, i, ex) ==
    LET idx == (self.recent_idx + 1) % self.max_num_exp IN
    [self EXCEPT
        !.recent_idx = idx,
        !._count = self._count + 1,
        !.states[idx] = ex.state,
        !.actions[idx] = ex.action,
        !.rewards[idx] = ex.reward,
        !.terminateds[idx] = ex.terminated,
        !.next_state_buffer[i] = ex.next_state]

\* A mutant of the loop body: the count stops one short of max_num_exp.
BT_add_one_short(self, i, ex) ==
    LET idx == (self.recent_idx + 1) % self.max_num_exp IN
    [self EXCEPT
        !.recent_idx = idx,
        !._count = Min(self._count + 1, self.max_num_exp - 1),
        !.states[idx] = ex.state,
        !.actions[idx] = ex.action,
        !.rewards[idx] = ex.reward,
        !.terminateds[idx] = ex.terminated,
        !.next_state_buffer[i] = ex.next_state]

\* A mutant of the loop body: the experience is stored at recent_idx before
\* recent_idx advances (at the list's last slot while recent_idx is -1).
BT_add_one_store_first(self, i, ex) ==
    LET at == IF self.recent_idx < 0
              THEN self.recent_idx + self.max_num_exp ELSE self.recent_idx
    IN
    [self EXCEPT
        !.recent_idx = (self.recent_idx + 1) % self.max_num_exp,
        !._count = Min(self._count + 1, self.max_num_exp),
        !.states[at] = ex.state,
        !.actions[at] = ex.action,
        !.rewards[at] = ex.reward,
        !.terminateds[at] = ex.terminated,
        !.next_state_buffer[i] = ex.next_state]

\* One iteration of add's loop, for the i-th experience ex of the call.
BT_add_one(self, i, ex) ==
    LET idx == (self.recent_idx + 1) % self.max_num_exp IN
    [self EXCEPT
        !.recent_idx = idx,
        !._count = Min(self._count + 1, self.max_num_exp),
        !.states[idx] = ex.state,
        !.actions[idx] = ex.action,
        !.rewards[idx] = ex.reward,
        !.terminateds[idx] = ex.terminated,
        !.next_state_buffer[i] = ex.next_state]

\* add's loop from iteration i on; experiences[i + 1] is Python's
\* experiences[i].
RECURSIVE BT_add_loop(_, _, _)
BT_add_loop(self, experiences, i) ==
    IF i >= Len(experiences) THEN self
    ELSE BT_add_loop(BT_add_one(self, i, experiences[i + 1]), experiences, i + 1)

\* A mutant of add: the length is checked after the loop instead of before
\* it (the writes that fit the per-environment cache have happened).
BT_add_check_last(self, experiences) ==
    LET fits == SubSeq(experiences, 1, Min(Len(experiences), self.num_envs)) IN
    IF Len(experiences) # self.num_envs
    THEN [err |-> "AssertionError", self |-> BT_add_loop(self, fits, 0)]
    ELSE [err |-> "none", self |-> BT_add_loop(self, experiences, 0)]

\* add(experiences)
BT_add(self, experiences) ==
    IF Len(experiences) # self.num_envs
    THEN [err |-> "AssertionError", self |-> self]
    ELSE [err |-> "none", self |-> BT_add_loop(self, experiences, 0)]

\* The readiness predicate: the buffer is exactly full.
BT_can_train(self) == self._count = self.max_num_exp

\* sample(): refuses an under-full buffer; otherwise hands out every slot in
\* slot order with n_steps = capacity / num_envs and resets the buffer.
BT_sample(self) ==
    IF self._count < self.max_num_exp
    THEN [err |-> "AssertionError", self |-> self, batch |-> None]
    ELSE [err |-> "none",
          self |-> BT_reset(self),
          batch |-> [obs |-> self.states, action |-> self.actions,
                     next_obs |-> self.next_state_buffer,
                     reward |-> self.rewards, terminated |-> self.terminateds,
                     n_steps |-> self.max_num_exp \div self.num_envs]]

(***************************************************************************)
(* PPOTrajectory                                                           *)
(***************************************************************************)
\* The (action_log_prob, v_pred) tensor pairs an add call is handed.
AuxPairs == {<<0, 2>>, <<1, 3>>}

\* Python's list[i] = v for i in -len..len-1: a negative index counts from
\* the end.
ListSet(list, i, v) ==
    LET n == Cardinality(DOMAIN list) IN
    [list EXCEPT ![IF i < 0 THEN i + n ELSE i] = v]

\* reset()
PPO_reset(self) ==
    [self EXCEPT
        !.exp_trajectory = BT_reset(self.exp_trajectory),
        !.action_log_prob = [i \in 0..(self.max_n_steps - 1) |-> None],
        !.v_pred = [i \in 0..(self.max_n_steps - 1) |-> None]]

\* __init__(max_n_steps): the base buffer is BatchTrajectory(max_n_steps),
\* so its num_envs is the default 1.
PPO_init(max_n_steps) ==
    PPO_reset([max_n_steps |-> max_n_steps,
               exp_trajectory |-> BT_init(max_n_steps, 1),
               action_log_prob |-> <<>>, v_pred |-> <<>>])

\* A mutant of add: the auxiliary values are stored before the delegated
\* add has moved recent_idx.
PPO_add_aux_first(self, experience, action_log_prob, v_pred) ==
    LET at == self.exp_trajectory.recent_idx
        r == BT_add(self.exp_trajectory, experience)
    IN  [err |-> r.err,
         self |-> [self EXCEPT
            !.exp_trajectory = r.self,
            !.action_log_prob = ListSet(self.action_log_prob, at, action_log_prob),
            !.v_pred = ListSet(self.v_pred, at, v_pred)]]

\* add(experience, action_log_prob, v_pred)
PPO_add(self, experience, action_log_prob, v_pred) ==
    LET r == BT_add(self.exp_trajectory, experience) IN
    IF r.err # "none"
    THEN [err |-> r.err, self |-> [self EXCEPT !.exp_trajectory = r.self]]
    ELSE [err |-> "none",
          self |-> [self EXCEPT
            !.exp_trajectory = r.self,
            !.action_log_prob =
                ListSet(self.action_log_prob, r.self.recent_idx, action_log_prob),
            !.v_pred = ListSet(self.v_pred, r.self.recent_idx, v_pred)]]

\* torch.cat(list, dim=0) of a list that holds a None raises TypeError.
CatRaises(list) == \E i \in DOMAIN list : list[i] = None

\* A mutant of sample: reset() is called before the base buffer is sampled.
PPO_sample_reset_first(self) ==
    LET cleared == PPO_reset(self)
        r == BT_sample(cleared.exp_trajectory)
    IN  IF r.err # "none"
        THEN [err |-> r.err, self |-> cleared, batch |-> None]
        ELSE [err |-> "TypeError", self |-> cleared, batch |-> None]

\* A mutant of sample: the closing reset() is missing.
PPO_sample_no_reset(self) ==
    LET r == BT_sample(self.exp_trajectory) IN
    IF r.err # "none"
    THEN [err |-> r.err, self |-> [self EXCEPT !.exp_trajectory = r.self],
          batch |-> None]
    ELSE [err |-> "none",
          self |-> [self EXCEPT !.exp_trajectory = r.self],
          batch |-> [obs |-> r.batch.obs, action |-> r.batch.action,
                     next_obs |-> r.batch.next_obs, reward |-> r.batch.reward,
                     terminated |-> r.batch.terminated,
                     action_log_prob |-> self.action_log_prob,
                     v_pred |-> self.v_pred,
                     n_steps |-> r.batch.n_steps]]

\* sample(): the base buffer is sampled first (and has reset itself by the
\* time the auxiliary lists are concatenated), then reset() runs.
PPO_sample(self) ==
    LET r == BT_sample(self.exp_trajectory) IN
    IF r.err # "none"
    THEN [err |-> r.err, self |-> [self EXCEPT !.exp_trajectory = r.self],
          batch |-> None]
    ELSE IF CatRaises(self.action_log_prob) \/ CatRaises(self.v_pred)
    THEN [err |-> "TypeError", self |-> [self EXCEPT !.exp_trajectory = r.self],
          batch |-> None]
    ELSE [err |-> "none",
          self |-> PPO_reset([self EXCEPT !.exp_trajectory = r.self]),
          batch |-> [obs |-> r.batch.obs, action |-> r.batch.action,
                     next_obs |-> r.batch.next_obs, reward |-> r.batch.reward,
                     terminated |-> r.batch.terminated,
                     action_log_prob |-> self.action_log_prob,
                     v_pred |-> self.v_pred,
                     n_steps |-> r.batch.n_steps]]

(***************************************************************************)
(* network.py: the two action layers and the gradient step.  A tensor of   *)
(* shape (batch, width) is a sequence of rows, each a sequence of width    *)
(* numbers.  The linear projection self.layer(x) is torch's; its output is *)
(* the input of the model.                                                 *)
(***************************************************************************)
RECURSIVE Sum(_, _)
\* The sum of seq[1..n].
Sum(seq, n) == IF n = 0 THEN 0 ELSE Sum(seq, n - 1) + seq[n]

RECURSIVE Pow2(_)
Pow2(x) == IF x = 0 THEN 1 ELSE 2 * Pow2(x - 1)

\* DiscreteActionLayer.__init__: an int becomes a tuple of one branch, and
\* the branch sizes are summed into the width of the projection.  The
\* argument carries its Python type: [int |-> n] or [tuple |-> sizes].
DiscreteActionLayer_init(num_discrete_actions, is_logits) ==
    LET branches == IF "int" \in DOMAIN num_discrete_actions
                    THEN <<num_discrete_actions.int>>
                    ELSE num_discrete_actions.tuple
    IN  [is_logits |-> is_logits,
         num_discrete_actions |-> branches,
         total_num_discrete_actions |-> Sum(branches, Len(branches))]

\* torch.split(out, sizes, dim=1): tensor k holds, of every row, the
\* sizes[k] columns that follow those of the tensors before it.
Split(out, sizes) ==
    [k \in 1..Len(sizes) |->
        [r \in 1..Len(out) |->
            [j \in 1..sizes[k] |-> out[r][Sum(sizes, k - 1) + j]]]]

\* F.softmax(t, dim=1): every entry becomes its weight over the sum of the
\* weights of its row, a fraction <<numerator, denominator>>.  The weight
\* of x is 2^x in place of e^x.
Softmax(t) ==
    [r \in 1..Len(t) |->
        LET weights == [j \in 1..Len(t[r]) |-> Pow2(t[r][j])] IN
        [j \in 1..Len(t[r]) |-> <<weights[j], Sum(weights, Len(weights))>>]]

\* A mutant of forward: the softmax runs over the whole projection output
\* before it is split.
DiscreteActionLayer_forward_joint(self, out) ==
    IF self.is_logits
    THEN Split(out, self.num_discrete_actions)
    ELSE Split(Softmax(out), self.num_discrete_actions)

\* DiscreteActionLayer.forward, from the projection output out on.
DiscreteActionLayer_forward(self, out) ==
    LET discrete_pdparams == Split(out, self.num_discrete_actions) IN
    IF self.is_logits
    THEN discrete_pdparams
    ELSE [i \in 1..Len(discrete_pdparams) |-> Softmax(discrete_pdparams[i])]

\* GaussianContinuousActionLayer.__init__
GaussianContinuousActionLayer_init(num_continuous_actions) ==
    [num_continuous_actions |-> num_continuous_actions]

Abs(x) == IF x < 0 THEN -x ELSE x

\* torch.reshape(out, (-1, n, 2)): every row becomes n pairs.
ReshapePairs(out, n) ==
    [r \in 1..Len(out) |-> [b \in 1..n |-> <<out[r][2 * b - 1], out[r][2 * b]>>]]

\* torch.abs_(t[..., i]) for the 0-based index i of the last axis.
AbsAt(t, i) ==
    [r \in 1..Len(t) |->
        [b \in 1..Len(t[r]) |-> [t[r][b] EXCEPT ![i + 1] = Abs(@)]]]

\* torch.reshape(t, (-1, n * 2)): the pairs of every row are laid out one
\* after the other.
ReshapeFlat(t, n) ==
    [r \in 1..Len(t) |->
        [j \in 1..(2 * n) |-> t[r][(j + 1) \div 2][2 - (j % 2)]]]

\* A mutant of forward: the absolute value is taken of index 0 of every
\* pair.
GaussianContinuousActionLayer_forward_abs_mean(self, out) ==
    LET n == self.num_continuous_actions
        flat == ReshapeFlat(AbsAt(ReshapePairs(out, n), 0), n)
    IN  Split(flat, [k \in 1..n |-> 2])

\* GaussianContinuousActionLayer.forward, from the projection output out
\* on; torch.split(out, 2, dim=1) cuts the rows into chunks of 2 columns.
GaussianContinuousActionLayer_forward(self, out) ==
    LET n == self.num_continuous_actions
        flat == ReshapeFlat(AbsAt(ReshapePairs(out, n), 1), n)
    IN  Split(flat, [k \in 1..n |-> 2])

\* The state a gradient step works on: the parameters, their gradient, and
\* the calls made so far.
ZeroGrad(st) == [st EXCEPT !.grad = 0, !.calls = Append(@, "zero_grad")]

\* loss.backward(): the gradient of the loss is added to the stored one.
Backward(st, loss_grad) ==
    [st EXCEPT !.grad = st.grad + loss_grad, !.calls = Append(@, "backward")]

\* clip_grad_norm_(parameters, max_norm): a gradient of a larger norm is
\* scaled down to max_norm.
ClipGradNorm(st, max_norm) ==
    [st EXCEPT
        !.grad = IF Abs(st.grad) > max_norm
                 THEN (IF st.grad < 0 THEN -max_norm ELSE max_norm)
                 ELSE st.grad,
        !.calls = Append(@, "clip_grad_norm_")]

\* optimizer.step(): the parameters move against the gradient.
OptimizerStep(st) ==
    [st EXCEPT !.params = st.params - st.grad, !.calls = Append(@, "step")]

\* A mutant of the gradient step: the gradient is clipped after the
\* optimizer has stepped.
Network_basic_train_step_clip_late(st, loss_grad, grad_clip_max_norm) ==
    LET stepped == OptimizerStep(Backward(ZeroGrad(st), loss_grad)) IN
    IF grad_clip_max_norm # None
    THEN ClipGradNorm(stepped, grad_clip_max_norm)
    ELSE stepped

\* Network.basic_train_step(loss, optimizer, grad_clip_max_norm)
Network_basic_train_step(st, loss_grad, grad_clip_max_norm) ==
    LET computed == Backward(ZeroGrad(st), loss_grad)
        clipped == IF grad_clip_max_norm # None
                   THEN ClipGradNorm(computed, grad_clip_max_norm)
                   ELSE computed
    IN  OptimizerStep(clipped)

(***************************************************************************)
(* Clock and IncrementalAverage, the agent's two helpers.                  *)
(***************************************************************************)
\* Clock(num_envs)
Clock_init(num_envs) ==
    [num_envs |-> num_envs, global_time_step |-> 0, episode |-> 0,
     episode_len |-> 0, training_step |-> 0]

\* tick_gloabl_time_step(): one batched environment step, which is one time
\* step in each of the clock's num_envs environments.
Clock_tick_gloabl_time_step(self) ==
    [self EXCEPT !.episode_len = self.episode_len + 1,
                 !.global_time_step = self.global_time_step + self.num_envs]

\* tick_episode()
Clock_tick_episode(self) ==
    [self EXCEPT !.episode_len = 0, !.episode = self.episode + 1]

\* tick_training_step()
Clock_tick_training_step(self) ==
    [self EXCEPT !.training_step = self.training_step + 1]

\* state_dict: a new mapping of the four counters.
Clock_state_dict(self) ==
    [global_time_step |-> self.global_time_step, episode |-> self.episode,
     episode_len |-> self.episode_len, training_step |-> self.training_step]

\* load_state_dict(state_dict): the four counters are read from the
\* mapping; its other keys are left alone.
Clock_load_state_dict(self, state_dict) ==
    [self EXCEPT !.global_time_step = state_dict["global_time_step"],
                 !.episode = state_dict["episode"],
                 !.episode_len = state_dict["episode_len"],
                 !.training_step = state_dict["training_step"]]

\* check_global_time_step_freq(frequency)
Clock_check_global_time_step_freq(self, frequency) ==
    self.global_time_step % frequency = 0

\* IncrementalAverage(): the number of samples and their sum (the average is
\* total / count).
IncrementalAverage_init == [count |-> 0, total |-> 0]

\* update(value)
IncrementalAverage_update(self, value) ==
    [count |-> self.count + 1, total |-> self.total + value]

\* reset()
IncrementalAverage_reset(self) == IncrementalAverage_init

\* average: total / count, as the fraction <<total, count>>.
IncrementalAverage_average(self) == <<self.total, self.count>>

(***************************************************************************)
(* Agent                                                                   *)
(***************************************************************************)
\* The values behavior_type is set to: the two members of BehaviorType and
\* a value that is neither (the setter takes any value).
BehaviorValues == {"TRAIN", "INFERENCE", "OTHER"}

\* The networks and policies an agent is built with are objects 1 and 2;
\* object 2 is an ILogable.
Networks == {1, 2}
Policies == {1, 2}
ILogable == {2}

\* A mutant of __init__: the clock is built for one environment.
Agent_init_clock_of_one(network, policy, num_envs) ==
    [clock |-> Clock_init(1),
     logable_network |-> IF network \in ILogable THEN network ELSE None,
     logable_policy |-> IF policy \in ILogable THEN policy ELSE None,
     policy |-> policy,
     network |-> network,
     num_envs |-> num_envs,
     _behavior_type |-> "TRAIN",
     traced_env |-> 0,
     cumulative_average_reward |-> IncrementalAverage_init,
     cumulative_reward |-> 0,
     episode_average_len |-> IncrementalAverage_init]

\* __init__(network, policy, num_envs)
Agent_init(network, policy, num_envs) ==
    [clock |-> Clock_init(num_envs),
     logable_network |-> IF network \in ILogable THEN network ELSE None,
     logable_policy |-> IF policy \in ILogable THEN policy ELSE None,
     policy |-> policy,
     network |-> network,
     num_envs |-> num_envs,
     _behavior_type |-> "TRAIN",
     traced_env |-> 0,
     cumulative_average_reward |-> IncrementalAverage_init,
     cumulative_reward |-> 0,
     episode_average_len |-> IncrementalAverage_init]

\* Python's seq[i] of a 0-based index.
At(seq, i) == seq[i + 1]

\* terminated > 0.5 for a flag stored as 0 or 1.
IsTerminated(flag) == 2 * flag > 1

\* A mutant of _update_info: the episode ends when any environment reports
\* termination.
Agent_update_info_any_env(self, experience) ==
    LET clock == Clock_tick_gloabl_time_step(self.clock)
        cumulative_reward ==
            self.cumulative_reward + At(experience.reward, self.traced_env)
    IN  IF \E i \in 0..(experience.num_envs - 1) :
                IsTerminated(At(experience.terminated, i))
        THEN [self EXCEPT
                !.cumulative_average_reward =
                    IncrementalAverage_update(@, cumulative_reward),
                !.cumulative_reward = 0,
                !.episode_average_len =
                    IncrementalAverage_update(@, clock.episode_len),
                !.clock = Clock_tick_episode(clock)]
        ELSE [self EXCEPT !.clock = clock,
                          !.cumulative_reward = cumulative_reward]

\* A mutant of _update_info: the episode counter advances before the
\* episode length is recorded.
Agent_update_info_tick_first(self, experience) ==
    LET clock == Clock_tick_gloabl_time_step(self.clock)
        cumulative_reward ==
            self.cumulative_reward + At(experience.reward, self.traced_env)
    IN  IF IsTerminated(At(experience.terminated, self.traced_env))
        THEN [self EXCEPT
                !.cumulative_average_reward =
                    IncrementalAverage_update(@, cumulative_reward),
                !.cumulative_reward = 0,
                !.episode_average_len =
                    IncrementalAverage_update(@, Clock_tick_episode(clock).episode_len),
                !.clock = Clock_tick_episode(clock)]
        ELSE [self EXCEPT !.clock = clock,
                          !.cumulative_reward = cumulative_reward]

\* _update_info(experience)
Agent_update_info(self, experience) ==
    LET clock == Clock_tick_gloabl_time_step(self.clock)
        cumulative_reward ==
            self.cumulative_reward + At(experience.reward, self.traced_env)
    IN  IF IsTerminated(At(experience.terminated, self.traced_env))
        THEN [self EXCEPT
                !.cumulative_average_reward =
                    IncrementalAverage_update(@, cumulative_reward),
                !.cumulative_reward = 0,
                !.episode_average_len =
                    IncrementalAverage_update(@, clock.episode_len),
                !.clock = Clock_tick_episode(clock)]
        ELSE [self EXCEPT !.clock = clock,
                          !.cumulative_reward = cumulative_reward]

\* A mutant of update: the environment count is checked after the
\* bookkeeping instead of before it.
Agent_update_check_last(self, experience) ==
    IF experience.num_envs # self.num_envs
    THEN [err |-> "AssertionError", self |-> Agent_update_info(self, experience)]
    ELSE [err |-> "none", self |-> Agent_update_info(self, experience)]

\* update(experience)
Agent_update(self, experience) ==
    IF experience.num_envs # self.num_envs
    THEN [err |-> "AssertionError", self |-> self]
    ELSE [err |-> "none", self |-> Agent_update_info(self, experience)]

\* behavior_type = value
Agent_set_behavior_type(self, value) == [self EXCEPT !._behavior_type = value]

\* The log_data of an ILogable network and of an ILogable policy: metrics
\* of their own, as key :> (value, time).
Network_log_data == ("Network/Metric" :> <<0, 0>>)
Policy_log_data == ("Policy/Metric" :> <<0, 0>>)

\* A mutant of log_data: the two averages are reported and kept.
Agent_log_data_no_reset(self) ==
    LET own ==
            IF self.cumulative_average_reward.count > 0
            THEN ("Environment/Cumulative Reward" :>
                    <<IncrementalAverage_average(self.cumulative_average_reward),
                      self.clock.global_time_step>>)
                 @@ ("Environment/Episode Length" :>
                    <<IncrementalAverage_average(self.episode_average_len),
                      self.clock.episode>>)
            ELSE <<>>
    IN  [self |-> self, ld |-> own]

\* log_data: the mapping it returns and the agent it leaves; dict.update
\* lets the keys of its argument win.
Agent_log_data(self) ==
    LET reported == self.cumulative_average_reward.count > 0
        own ==
            IF reported
            THEN ("Environment/Cumulative Reward" :>
                    <<IncrementalAverage_average(self.cumulative_average_reward),
                      self.clock.global_time_step>>)
                 @@ ("Environment/Episode Length" :>
                    <<IncrementalAverage_average(self.episode_average_len),
                      self.clock.episode>>)
            ELSE <<>>
        after ==
            IF reported
            THEN [self EXCEPT
                    !.cumulative_average_reward = IncrementalAverage_reset(@),
                    !.episode_average_len = IncrementalAverage_reset(@)]
            ELSE self
        with_network == IF self.logable_network # None
                        THEN Network_log_data @@ own ELSE own
        with_policy == IF self.logable_policy # None
                       THEN Policy_log_data @@ with_network ELSE with_network
    IN  [self |-> after, ld |-> with_policy]

\* state_dict, of an agent whose network's state_dict() is weights.
Agent_state_dict(self, weights) ==
    LET sd == Clock_state_dict(self.clock) IN
    ("network" :> weights) @@ sd

\* A mutant of load_state_dict: the network is not loaded.
Agent_load_state_dict_clock_only(self, weights, state_dict) ==
    [self |-> [self EXCEPT
                !.clock = Clock_load_state_dict(self.clock, state_dict)],
     weights |-> weights]

\* load_state_dict(state_dict), of an agent whose network holds
\* weights: the agent and the network's state it leaves.  The
\* network's load_state_dict takes over the state it is given.
Agent_load_state_dict(self, weights, state_dict) ==
    [self |-> [self EXCEPT
                !.clock = Clock_load_state_dict(self.clock, state_dict)],
     weights |-> state_dict["network"]]

\* The Experience batch made of a list of experiences.
ExperienceBatch(experiences) ==
    [num_envs |-> Len(experiences),
     reward |-> [i \in 1..Len(experiences) |-> experiences[i].reward],
     terminated |-> [i \in 1..Len(experiences) |-> experiences[i].terminated]]

RECURSIVE Drain(_, _, _, _)
\* while trajectory.can_train: sample, train, tick the training step.  n
\* counts the iterations and weights the trainings of the network.
Drain(trajectory, clock, weights, n) ==
    IF ~BT_can_train(trajectory)
    THEN [trajectory |-> trajectory, clock |-> clock, weights |-> weights,
          n |-> n]
    ELSE Drain(BT_sample(trajectory).self, Clock_tick_training_step(clock),
               weights + 1, n + 1)

\* update(experience) in full, as the control loop runs it: the base
\* update, the storage in the trajectory, the drain, and the emission of
\* log_data when the global time step is on the summary frequency.
Agent_update_loop(self, trajectory, weights, summary_freq, experiences) ==
    LET base == Agent_update(self, ExperienceBatch(experiences)) IN
    IF base.err # "none"
    THEN [err |-> base.err, self |-> self, trajectory |-> trajectory,
          weights |-> weights, drained |-> 0, emitted |-> FALSE, ld |-> <<>>]
    ELSE
    LET stored == BT_add(trajectory, experiences)
        d == Drain(stored.self, base.self.clock, weights, 0)
        trained == [base.self EXCEPT !.clock = d.clock]
        emits == Clock_check_global_time_step_freq(trained.clock, summary_freq)
        read == Agent_log_data(trained)
    IN  [err |-> stored.err,
         self |-> IF emits THEN read.self ELSE trained,
         trajectory |-> d.trajectory,
         weights |-> d.weights,
         drained |-> d.n,
         emitted |-> emits,
         ld |-> IF emits THEN read.ld ELSE <<>>]

\* How a gradient mode is recorded.
GradMode(grad) == IF grad THEN "on" ELSE "off"

\* A mutant of select_action: the inference path runs in a no-gradient
\* scope that is never left.
Agent_select_action_no_restore(self, grad, path_raises) ==
    LET err == IF path_raises THEN "PathError" ELSE "none" IN
    IF self.policy = None
    THEN [err |-> "AssertionError", path |-> "none", path_grad |-> "none",
          grad |-> grad]
    ELSE IF self._behavior_type = "TRAIN"
    THEN [err |-> err, path |-> "train", path_grad |-> GradMode(grad), grad |-> grad]
    ELSE IF self._behavior_type = "INFERENCE"
    THEN [err |-> err, path |-> "inference", path_grad |-> GradMode(FALSE), grad |-> FALSE]
    ELSE [err |-> "ValueError", path |-> "none", path_grad |-> "none", grad |-> grad]

\* A mutant of select_action: a mode that is not TRAIN is taken for
\* INFERENCE.
Agent_select_action_two_way(self, grad, path_raises) ==
    LET err == IF path_raises THEN "PathError" ELSE "none" IN
    IF self.policy = None
    THEN [err |-> "AssertionError", path |-> "none", path_grad |-> "none",
          grad |-> grad]
    ELSE IF self._behavior_type = "TRAIN"
    THEN [err |-> err, path |-> "train", path_grad |-> GradMode(grad), grad |-> grad]
    ELSE [err |-> err, path |-> "inference", path_grad |-> GradMode(FALSE), grad |-> grad]

\* select_action(obs) called while torch's gradient mode is grad; the path
\* it runs returns or raises (path_raises).  The result names the path that
\* ran, the gradient mode the path ran in, and the gradient mode when the
\* call ends: torch.no_grad() switches the mode off on entry and puts the
\* former mode back on exit, also when the body raises.
Agent_select_action(self, grad, path_raises) ==
    LET err == IF path_raises THEN "PathError" ELSE "none" IN
    IF self.policy = None
    THEN [err |-> "AssertionError", path |-> "none", path_grad |-> "none",
          grad |-> grad]
    ELSE IF self._behavior_type = "TRAIN"
    THEN [err |-> err, path |-> "train", path_grad |-> GradMode(grad), grad |-> grad]
    ELSE IF self._behavior_type = "INFERENCE"
    THEN [err |-> err, path |-> "inference", path_grad |-> GradMode(FALSE), grad |-> grad]
    ELSE [err |-> "ValueError", path |-> "none", path_grad |-> "none", grad |-> grad]

(***************************************************************************)
(* The buffer driven directly: any configuration the constructor accepts,  *)
(* then add, reset and sample in any order.                                *)
(***************************************************************************)
NoCall == [op |-> "init", err |-> "none", n |-> 0, batch |-> None]

Call(op, err, n, batch) == [op |-> op, err |-> err, n |-> n, batch |-> batch]

\* What is remembered of the call before the last one.
Before(call) == [op |-> call.op, err |-> call.err]

\* The slots of a list of the given length, all empty.
Empty(n) == [i \in 0..(n - 1) |-> None]

\* No call into network.py is under way.
NoNetCall == [kind |-> "none"]

\* No action-selection path has run.
NoPath == [path |-> "none", grad |-> "none"]

\* No update has been handed an experience.
NoEpisodes ==
    /\ episode_reward = 0
    /\ episode_steps = 0
    /\ finished = 0
    /\ finished_reward = 0
    /\ finished_len = 0

\* The objects a specification does not drive stay as constructed.
IdleTraj == traj = BT_init(1, 1) /\ writes = 0 /\ adds = 0 /\ arg = <<>>
IdlePPO ==
    /\ ppo = PPO_init(1)
    /\ given_log_prob = Empty(1)
    /\ given_v_pred = Empty(1)

IdleNet == net_call = NoNetCall /\ net_result = <<>>

\* log_data has not been read.
NoLog ==
    [ld |-> <<>>, at |-> None, before |-> None, finished |-> 0,
     before_finished |-> 0, reward |-> 0, len |-> 0, time |-> 0, episodes |-> 0]

\* No control loop runs.
NoLoop ==
    [summary_freq |-> 1, emissions |-> 0, emitted |-> FALSE, drained |-> 0,
     drained_now |-> 0]

IdleLog == log = NoLog /\ loop = NoLoop

\* state_dict has not been called on the freshly built network.
IdleDict == network_state = 0 /\ saved = <<>> /\ at_save = <<>>

IdleAgent ==
    /\ IdleNet
    /\ IdleLog
    /\ IdleDict
    /\ agent = Agent_init(1, 1, 1)
    /\ updates = 0
    /\ traced_terminations = 0
    /\ only_fifth = TRUE
    /\ NoEpisodes
    /\ grad_enabled = TRUE
    /\ train_calls = 0
    /\ inference_calls = 0
    /\ ran = NoPath

InitBT ==
    /\ \E c \in 1..MaxCapacity, e \in 1..MaxNumEnvs : traj = BT_init(c, e)
    /\ writes = 0
    /\ adds = 0
    /\ arg = <<>>
    /\ ret = NoCall
    /\ prev = Before(NoCall)
    /\ IdlePPO
    /\ IdleAgent

TrajAdd ==
    /\ adds < MaxAdds
    /\ \E experiences \in ExperienceLists :
         LET r == BT_add(traj, experiences) IN
         /\ traj' = r.self
         /\ writes' = IF r.err = "none" THEN writes + Len(experiences) ELSE writes
         /\ adds' = IF r.err = "none" THEN adds + 1 ELSE adds
         /\ arg' = IF r.err = "none" THEN experiences ELSE arg
         /\ ret' = Call("add", r.err, Len(experiences), None)
    /\ prev' = Before(ret)
    /\ UNCHANGED <<logVars, dictVars, netVars, ppoVars, agent, updateVars, selectVars>>

TrajReset ==
    /\ traj' = BT_reset(traj)
    /\ writes' = 0
    /\ adds' = 0
    /\ arg' = <<>>
    /\ ret' = Call("reset", "none", 0, None)
    /\ prev' = Before(ret)
    /\ UNCHANGED <<logVars, dictVars, netVars, ppoVars, agent, updateVars, selectVars>>

TrajSample ==
    /\ LET r == BT_sample(traj) IN
         /\ traj' = r.self
         /\ writes' = IF r.err = "none" THEN 0 ELSE writes
         /\ adds' = IF r.err = "none" THEN 0 ELSE adds
         /\ arg' = IF r.err = "none" THEN <<>> ELSE arg
         /\ ret' = Call("sample", r.err, 0, r.batch)
    /\ prev' = Before(ret)
    /\ UNCHANGED <<logVars, dictVars, netVars, ppoVars, agent, updateVars, selectVars>>

NextBT == TrajAdd \/ TrajReset \/ TrajSample

SpecBT == InitBT /\ [][NextBT]_vars

(***************************************************************************)
(* The PPO trajectory: any max_n_steps, then add, reset and sample in any  *)
(* order.                                                                  *)
(***************************************************************************)
InitPPO ==
    /\ \E n \in 1..MaxNSteps :
         /\ ppo = PPO_init(n)
         /\ given_log_prob = Empty(n)
         /\ given_v_pred = Empty(n)
    /\ ret = NoCall
    /\ prev = Before(NoCall)
    /\ IdleTraj
    /\ IdleAgent

\* The base slots a returning add of k experiences writes: the k slots after
\* recent_idx, circularly.
SlotsWritten(base, k) ==
    {(base.recent_idx + j) % base.max_num_exp : j \in 1..k}

PPOAdd ==
    /\ \E experience \in PPOExperienceLists, aux \in AuxPairs :
         LET action_log_prob == aux[1]
             v_pred == aux[2]
             r == PPO_add(ppo, experience, action_log_prob, v_pred)
             hit == IF r.err = "none"
                    THEN SlotsWritten(ppo.exp_trajectory, Len(experience))
                    ELSE {}
         IN
         /\ ppo' = r.self
         /\ given_log_prob' = [i \in DOMAIN given_log_prob |->
                IF i \in hit THEN action_log_prob ELSE given_log_prob[i]]
         /\ given_v_pred' = [i \in DOMAIN given_v_pred |->
                IF i \in hit THEN v_pred ELSE given_v_pred[i]]
         /\ ret' = Call("add", r.err, Len(experience), None)
    /\ prev' = Before(ret)
    /\ UNCHANGED <<logVars, dictVars, netVars, trajVars, agent, updateVars, selectVars>>

PPOReset ==
    /\ ppo' = PPO_reset(ppo)
    /\ given_log_prob' = Empty(ppo.max_n_steps)
    /\ given_v_pred' = Empty(ppo.max_n_steps)
    /\ ret' = Call("reset", "none", 0, None)
    /\ prev' = Before(ret)
    /\ UNCHANGED <<logVars, dictVars, netVars, trajVars, agent, updateVars, selectVars>>

PPOSample ==
    /\ LET r == PPO_sample(ppo) IN
         /\ ppo' = r.self
         /\ given_log_prob' =
                IF r.err = "none" THEN Empty(ppo.max_n_steps) ELSE given_log_prob
         /\ given_v_pred' =
                IF r.err = "none" THEN Empty(ppo.max_n_steps) ELSE given_v_pred
         /\ ret' = Call("sample", r.err, 0, r.batch)
    /\ prev' = Before(ret)
    /\ UNCHANGED <<logVars, dictVars, netVars, trajVars, agent, updateVars, selectVars>>

NextPPO == PPOAdd \/ PPOReset \/ PPOSample

SpecPPO == InitPPO /\ [][NextPPO]_vars

(***************************************************************************)
(* The agent's bookkeeping: an agent of one or two environments is handed  *)
(* experience batches of any environment count.                            *)
(***************************************************************************)
\* The environment counts of the agents explored.
AgentNumEnvs == {1, 2}

\* The experience batches handed to update: num_envs rewards and num_envs
\* termination flags (0.0 or 1.0).
ExperienceBatches ==
    UNION {[num_envs : {n}, reward : [1..n -> {0, 1}],
            terminated : [1..n -> {0, 1}]] : n \in 1..3}

InitAgent ==
    /\ \E n \in AgentNumEnvs : agent = Agent_init(1, 1, n)
    /\ updates = 0
    /\ traced_terminations = 0
    /\ only_fifth = TRUE
    /\ NoEpisodes
    /\ grad_enabled = TRUE
    /\ train_calls = 0
    /\ inference_calls = 0
    /\ ran = NoPath
    /\ ret = NoCall
    /\ prev = Before(NoCall)
    /\ IdleTraj
    /\ IdlePPO
    /\ IdleNet
    /\ IdleLog
    /\ IdleDict

\* What an update that returned adds to the history of environment 0's
\* episodes: its reward and its step count to the running episode, and the
\* episode that ends with it to the finished ones.
EpisodeHistory(reward, done) ==
    /\ episode_reward' = IF done THEN 0 ELSE episode_reward + reward
    /\ episode_steps' = IF done THEN 0 ELSE episode_steps + 1
    /\ finished' = IF done THEN finished + 1 ELSE finished
    /\ finished_reward' =
            IF done THEN finished_reward + episode_reward + reward
            ELSE finished_reward
    /\ finished_len' =
            IF done THEN finished_len + episode_steps + 1 ELSE finished_len

\* update(experience), while fewer than limit updates have returned.
AgentUpdateWithin(limit) ==
    /\ updates < limit
    /\ \E experience \in ExperienceBatches :
         LET r == Agent_update(agent, experience)
             done == IsTerminated(At(experience.terminated, 0))
         IN
         /\ agent' = r.self
         /\ updates' = IF r.err = "none" THEN updates + 1 ELSE updates
         /\ traced_terminations' =
                IF r.err = "none" /\ done
                THEN traced_terminations + 1 ELSE traced_terminations
         /\ only_fifth' =
                IF r.err = "none"
                THEN only_fifth /\ (done <=> updates + 1 = 5)
                ELSE only_fifth
         /\ IF r.err = "none"
            THEN EpisodeHistory(At(experience.reward, 0), done)
            ELSE UNCHANGED <<episode_reward, episode_steps, finished,
                             finished_reward, finished_len>>
         /\ ret' = Call("update", r.err, experience.num_envs, None)
    /\ UNCHANGED <<logVars, dictVars, netVars, trajVars, ppoVars, selectVars, prev>>

AgentUpdate == AgentUpdateWithin(MaxUpdates)

NextAgent == AgentUpdate

SpecAgent == InitAgent /\ [][NextAgent]_vars

(***************************************************************************)
(* Action selection: the behavior type is set to any value and             *)
(* select_action is called; the path it runs returns or raises.            *)
(***************************************************************************)
InitSelect == InitAgent

SetBehaviorType ==
    /\ \E value \in BehaviorValues :
         agent' = Agent_set_behavior_type(agent, value)
    /\ ret' = Call("behavior_type", "none", 0, None)
    /\ UNCHANGED <<logVars, dictVars, netVars, trajVars, ppoVars, updateVars, selectVars, prev>>

SelectAction ==
    /\ train_calls + inference_calls < MaxSelects
    /\ \E path_raises \in BOOLEAN :
         LET r == Agent_select_action(agent, grad_enabled, path_raises) IN
         /\ grad_enabled' = r.grad
         /\ train_calls' = IF r.path = "train" THEN train_calls + 1 ELSE train_calls
         /\ inference_calls' =
                IF r.path = "inference" THEN inference_calls + 1 ELSE inference_calls
         /\ ran' = [path |-> r.path, grad |-> r.path_grad]
         /\ ret' = Call("select_action", r.err, 0, None)
    /\ UNCHANGED <<logVars, dictVars, netVars, trajVars, ppoVars, agent, updateVars, prev>>

NextSelect == SetBehaviorType \/ SelectAction

SpecSelect == InitSelect /\ [][NextSelect]_vars

(***************************************************************************)
(* An agent that is updated and whose log_data is read.                    *)
(***************************************************************************)
MaxLogUpdates == 3

InitLog ==
    /\ \E network \in Networks, policy \in Policies, n \in AgentNumEnvs :
            agent = Agent_init(network, policy, n)
    /\ updates = 0
    /\ traced_terminations = 0
    /\ only_fifth = TRUE
    /\ NoEpisodes
    /\ grad_enabled = TRUE
    /\ train_calls = 0
    /\ inference_calls = 0
    /\ ran = NoPath
    /\ ret = NoCall
    /\ prev = Before(NoCall)
    /\ IdleTraj
    /\ IdlePPO
    /\ IdleNet
    /\ IdleLog
    /\ IdleDict

LogUpdate == AgentUpdateWithin(MaxLogUpdates)

\* A read of log_data.  The history of finished episodes starts again with
\* it; log keeps what the history held when the read began, the number of
\* updates at this read and at the one before, and the number of episodes
\* that had finished between the previous two reads.
LogData ==
    /\ LET r == Agent_log_data(agent) IN
         /\ agent' = r.self
         /\ log' = [ld |-> r.ld, at |-> updates, before |-> log.at,
                    finished |-> finished, before_finished |-> log.finished,
                    reward |-> finished_reward, len |-> finished_len,
                    time |-> updates * agent.num_envs,
                    episodes |-> traced_terminations]
    /\ loop' = loop
    /\ finished' = 0
    /\ finished_reward' = 0
    /\ finished_len' = 0
    /\ ret' = Call("log_data", "none", 0, None)
    /\ UNCHANGED <<dictVars, netVars, trajVars, ppoVars, selectVars, updates,
                   traced_terminations, only_fifth, episode_reward,
                   episode_steps, prev>>

NextLog == LogUpdate \/ LogData

SpecLog == InitLog /\ [][NextLog]_vars

(***************************************************************************)
(* An agent that is updated, trained, switched between behavior types,     *)
(* saved and loaded.                                                       *)
(***************************************************************************)
MaxDictUpdates == 2
MaxTrainings == 2

InitDict == InitAgent

DictUpdate == AgentUpdateWithin(MaxDictUpdates)

\* One training of the network: its weights change and the clock's
\* training step advances.
Train ==
    /\ agent.clock.training_step < MaxTrainings
    /\ network_state' = network_state + 1
    /\ agent' = [agent EXCEPT !.clock = Clock_tick_training_step(@)]
    /\ ret' = Call("train", "none", 0, None)
    /\ UNCHANGED <<logVars, saved, at_save, netVars, trajVars, ppoVars,
                   updateVars, selectVars, prev>>

\* sd = agent.state_dict; at_save notes the clock and the weights as they
\* are at this call.
StateDict ==
    /\ saved' = <<Agent_state_dict(agent, network_state)>>
    /\ at_save' = <<[global_time_step |-> agent.clock.global_time_step,
                     episode |-> agent.clock.episode,
                     episode_len |-> agent.clock.episode_len,
                     training_step |-> agent.clock.training_step,
                     network |-> network_state]>>
    /\ ret' = Call("state_dict", "none", 0, None)
    /\ UNCHANGED <<logVars, network_state, agent, netVars, trajVars, ppoVars,
                   updateVars, selectVars, prev>>

\* agent.load_state_dict(sd) of the mapping state_dict returned last.
LoadStateDict ==
    /\ saved # <<>>
    /\ LET r == Agent_load_state_dict(agent, network_state, saved[1]) IN
         /\ agent' = r.self
         /\ network_state' = r.weights
    /\ ret' = Call("load_state_dict", "none", 0, None)
    /\ UNCHANGED <<logVars, saved, at_save, netVars, trajVars, ppoVars,
                   updateVars, selectVars, prev>>

NextDict == DictUpdate \/ Train \/ SetBehaviorType \/ StateDict \/ LoadStateDict

SpecDict == InitDict /\ [][NextDict]_vars

(***************************************************************************)
(* The control loop: an agent with its trajectory and a summary frequency, *)
(* updated with one batch after the other.                                 *)
(***************************************************************************)
MaxLoopUpdates == 4

\* The configurations: the agent's num_envs, the capacity of its
\* trajectory, and the summary frequency (at least num_envs).
LoopConfigs ==
    {[num_envs |-> 2, capacity |-> 4, summary_freq |-> 4],
     [num_envs |-> 2, capacity |-> 3, summary_freq |-> 2],
     [num_envs |-> 2, capacity |-> 1, summary_freq |-> 4],
     [num_envs |-> 1, capacity |-> 2, summary_freq |-> 3],
     [num_envs |-> 1, capacity |-> 1, summary_freq |-> 1]}

InitLoop ==
    /\ \E c \in LoopConfigs :
         /\ agent = Agent_init(1, 1, c.num_envs)
         /\ traj = BT_init(c.capacity, c.num_envs)
         /\ loop = [NoLoop EXCEPT !.summary_freq = c.summary_freq]
    /\ writes = 0
    /\ adds = 0
    /\ arg = <<>>
    /\ log = NoLog
    /\ updates = 0
    /\ traced_terminations = 0
    /\ only_fifth = TRUE
    /\ NoEpisodes
    /\ grad_enabled = TRUE
    /\ train_calls = 0
    /\ inference_calls = 0
    /\ ran = NoPath
    /\ ret = NoCall
    /\ prev = Before(NoCall)
    /\ IdlePPO
    /\ IdleNet
    /\ IdleDict

\* update(experience) of the control loop; updates counts the calls that
\* returned.
LoopUpdate ==
    /\ updates < MaxLoopUpdates
    /\ \E experiences \in ExperienceLists :
         LET r == Agent_update_loop(agent, traj, network_state,
                                    loop.summary_freq, experiences)
         IN
         /\ agent' = r.self
         /\ traj' = r.trajectory
         /\ network_state' = r.weights
         /\ updates' = IF r.err = "none" THEN updates + 1 ELSE updates
         /\ loop' = [loop EXCEPT
                        !.emissions = IF r.emitted THEN @ + 1 ELSE @,
                        !.emitted = r.emitted,
                        !.drained = @ + r.drained,
                        !.drained_now = r.drained]
         /\ log' = IF r.emitted
                   THEN [NoLog EXCEPT !.ld = r.ld, !.at = updates + 1]
                   ELSE log
         /\ ret' = Call("update", r.err, Len(experiences), None)
    /\ UNCHANGED <<saved, at_save, netVars, writes, adds, arg, ppoVars,
                   traced_terminations, only_fifth, episode_reward,
                   episode_steps, finished, finished_reward, finished_len,
                   selectVars, prev>>

NextLoop == LoopUpdate

SpecLoop == InitLoop /\ [][NextLoop]_vars

(***************************************************************************)
(* network.py: one call of a layer's forward or of the gradient step, on   *)
(* any of the inputs below.                                                *)
(***************************************************************************)
\* The rows of the given width over the given values, in batches of 1 or 2.
Tensors(width, values) ==
    UNION {[1..b -> [1..width -> values]] : b \in {1, 2}}

\* The num_discrete_actions the discrete layer is built with.
BranchSizes ==
    <<[int |-> 2], [tuple |-> <<3>>], [tuple |-> <<2, 3>>], [tuple |-> <<1, 2>>]>>

DiscreteCalls ==
    UNION {
        LET layer == DiscreteActionLayer_init(BranchSizes[c], is_logits) IN
        [kind : {"discrete"}, layer : {layer},
         out : Tensors(layer.total_num_discrete_actions, {0, 1})]
        : c \in DOMAIN BranchSizes, is_logits \in BOOLEAN}

ContinuousCalls ==
    UNION {
        [kind : {"continuous"},
         layer : {GaussianContinuousActionLayer_init(n)},
         out : Tensors(2 * n, {-1, 0, 2})]
        : n \in {1, 2}}

TrainCalls ==
    [kind : {"train"},
     st : [params : {0}, grad : {0, 4}, calls : {<<>>}],
     loss_grad : {-3, 1, 2},
     grad_clip_max_norm : {None, 1, 2}]

InitNetwork ==
    /\ net_call \in DiscreteCalls \cup ContinuousCalls \cup TrainCalls
    /\ net_result = <<>>
    /\ ret = NoCall
    /\ prev = Before(NoCall)
    /\ IdleTraj
    /\ IdlePPO
    /\ IdleLog
    /\ IdleDict
    /\ agent = Agent_init(1, 1, 1)
    /\ updates = 0
    /\ traced_terminations = 0
    /\ only_fifth = TRUE
    /\ NoEpisodes
    /\ grad_enabled = TRUE
    /\ train_calls = 0
    /\ inference_calls = 0
    /\ ran = NoPath

DiscreteForward ==
    /\ net_call.kind = "discrete"
    /\ net_result = <<>>
    /\ net_result' = <<DiscreteActionLayer_forward(net_call.layer, net_call.out)>>
    /\ ret' = Call("forward", "none", Len(net_call.out), None)
    /\ UNCHANGED <<logVars, dictVars, net_call, trajVars, ppoVars, agent, updateVars, selectVars, prev>>

GaussianForward ==
    /\ net_call.kind = "continuous"
    /\ net_result = <<>>
    /\ net_result' =
            <<GaussianContinuousActionLayer_forward(net_call.layer, net_call.out)>>
    /\ ret' = Call("forward", "none", Len(net_call.out), None)
    /\ UNCHANGED <<logVars, dictVars, net_call, trajVars, ppoVars, agent, updateVars, selectVars, prev>>

TrainStep ==
    /\ net_call.kind = "train"
    /\ net_result = <<>>
    /\ net_result' = <<Network_basic_train_step(net_call.st, net_call.loss_grad,
                                                net_call.grad_clip_max_norm)>>
    /\ ret' = Call("basic_train_step", "none", 0, None)
    /\ UNCHANGED <<logVars, dictVars, net_call, trajVars, ppoVars, agent, updateVars, selectVars, prev>>

NextNetwork == DiscreteForward \/ GaussianForward \/ TrainStep

SpecNetwork == InitNetwork /\ [][NextNetwork]_vars

(***************************************************************************)
(* Properties of the buffer (checked under SpecBT).                        *)
(***************************************************************************)

\* C1: whatever adds (of num_envs experiences each) and resets have run,
\* count equals min(experiences written since the last reset, capacity),
\* and so lies in 0..capacity.
C1_CountIsMinOfWritesAndCapacity ==
    /\ traj._count = Min(writes, traj.max_num_exp)
    /\ traj._count \in 0..traj.max_num_exp

\* An add has returned after more experiences were written than fit.
C1_Witness ==
    /\ ret.op = "add" /\ ret.err = "none"
    /\ writes > traj.max_num_exp

\* C2 as stated: the buffer is training-ready exactly from the call number
\* capacity / num_envs on, i.e. iff some call k made since the last reset
\* has k * num_envs = capacity.
C2_ReadyAfterCapacityOverNumEnvsCalls ==
    BT_can_train(traj) <=>
        \E k \in 1..adds : k * traj.num_envs = traj.max_num_exp

\* C2 amended: the buffer is training-ready exactly from the first call on
\* whose experiences fill it, i.e. iff adds * num_envs >= capacity (call
\* number ceil(capacity / num_envs), which is capacity / num_envs when
\* num_envs divides capacity); further adds keep it ready until the next
\* sample or reset.
C2_ReadyOnceCallsFillCapacity ==
    BT_can_train(traj) <=> adds * traj.num_envs >= traj.max_num_exp

\* A buffer whose capacity is no multiple of num_envs is ready and has taken
\* a further add since it became ready.
C2_Witness ==
    /\ ret.op = "add" /\ ret.err = "none"
    /\ traj.max_num_exp % traj.num_envs # 0
    /\ (adds - 1) * traj.num_envs >= traj.max_num_exp
    /\ BT_can_train(traj)

\* C5: an add whose list is not num_envs long fails with the assertion (and
\* only such an add does), and leaves count, recent_idx, every slot and the
\* next_state_buffer as they were.
C5_WrongLengthAddChangesNothing ==
    [][ret'.op = "add" =>
          /\ (ret'.err = "AssertionError") <=> (ret'.n # traj.num_envs)
          /\ (ret'.n # traj.num_envs => traj' = traj)]_vars

\* An add of a wrong length has failed on a buffer that holds experiences.
C5_Witness ==
    /\ ret.op = "add" /\ ret.err = "AssertionError"
    /\ ret.n # traj.num_envs /\ ret.n > 0
    /\ traj._count > 0

\* The slot the k-th experience of an add goes to when recent_idx was idx
\* before the call.
SlotOf(idx, k, capacity) == (idx + k) % capacity

\* C17: the k-th experience of an add that returns goes to slot
\* (recent_idx + k) mod capacity, one slot after the other; when the call
\* ends recent_idx is the slot of the last experience, and every slot the
\* call wrote holds the last experience the call put there (state, action,
\* reward and termination flag).  A full buffer takes the add without an
\* error and its count stays at capacity.
C17_AddWritesTheNextSlotCircularly ==
    [][(ret'.op = "add" /\ ret'.err = "none") =>
          LET n == Len(arg')
              capacity == traj.max_num_exp
              last(k) == \A j \in (k + 1)..n :
                            SlotOf(traj.recent_idx, j, capacity)
                                # SlotOf(traj.recent_idx, k, capacity)
          IN
          /\ n = traj.num_envs
          /\ traj'.recent_idx = SlotOf(traj.recent_idx, n, capacity)
          /\ \A k \in 1..n :
                last(k) =>
                    LET at == SlotOf(traj.recent_idx, k, capacity) IN
                    /\ traj'.states[at] = arg'[k].state
                    /\ traj'.actions[at] = arg'[k].action
                    /\ traj'.rewards[at] = arg'[k].reward
                    /\ traj'.terminateds[at] = arg'[k].terminated
          /\ \A at \in 0..(capacity - 1) :
                (\A k \in 1..n : SlotOf(traj.recent_idx, k, capacity) # at) =>
                    /\ traj'.states[at] = traj.states[at]
                    /\ traj'.rewards[at] = traj.rewards[at]
          /\ (traj._count = capacity => traj'._count = capacity)]_vars

\* An add has returned on a buffer that was already full, replacing stored
\* experiences by different ones.
C17_Witness ==
    /\ ret.op = "add" /\ ret.err = "none"
    /\ writes >= traj.max_num_exp + Len(arg)
    /\ traj._count = traj.max_num_exp
    /\ traj.max_num_exp > traj.num_envs
    /\ \E i, j \in 0..(traj.max_num_exp - 1) : traj.states[i] # traj.states[j]

\* C20: the populated slots are exactly the indices 0..count-1, recent_idx
\* lies in -1..capacity-1 and is -1 iff count is 0, and the
\* next_state_buffer has exactly num_envs entries.
C20_PopulatedPrefixAndCursorRange ==
    /\ \A i \in 0..(traj.max_num_exp - 1) :
         /\ (traj.states[i] # None) <=> (i < traj._count)
         /\ (traj.actions[i] # None) <=> (i < traj._count)
         /\ (traj.rewards[i] # None) <=> (i < traj._count)
         /\ (traj.terminateds[i] # None) <=> (i < traj._count)
    /\ DOMAIN traj.states = 0..(traj.max_num_exp - 1)
    /\ traj.recent_idx \in -1..(traj.max_num_exp - 1)
    /\ (traj.recent_idx = -1) <=> (traj._count = 0)
    /\ DOMAIN traj.next_state_buffer = 0..(traj.num_envs - 1)

\* A partly filled buffer that was reset before: the cursor is inside the
\* populated prefix.
C20_Witness ==
    /\ prev.op = "reset"
    /\ ret.op = "add" /\ ret.err = "none"
    /\ traj._count > 1 /\ traj._count < traj.max_num_exp

(***************************************************************************)
(* Properties of the PPO trajectory (checked under SpecPPO).               *)
(***************************************************************************)
Slots == 0..(ppo.max_n_steps - 1)

\* Every entry of a sampled list is a stored value.
Full(list) == DOMAIN list = Slots /\ \A i \in Slots : list[i] # None

\* C3: a sample that returns hands out capacity examples in every field
\* (n_steps = capacity / num_envs) and leaves the trajectory as reset does:
\* count 0, recent_idx -1, every slot empty, not training-ready.
C3_SampleHandsOutCapacityAndResets ==
    (ret.op = "sample" /\ ret.err = "none") =>
        LET base == ppo.exp_trajectory IN
        /\ Full(ret.batch.obs) /\ Full(ret.batch.action)
        /\ Full(ret.batch.reward) /\ Full(ret.batch.terminated)
        /\ Full(ret.batch.action_log_prob) /\ Full(ret.batch.v_pred)
        /\ ret.batch.n_steps * base.num_envs = base.max_num_exp
        /\ base._count = 0
        /\ base.recent_idx = -1
        /\ \A i \in Slots :
             /\ base.states[i] = None /\ base.actions[i] = None
             /\ base.rewards[i] = None /\ base.terminateds[i] = None
             /\ ppo.action_log_prob[i] = None /\ ppo.v_pred[i] = None
        /\ ~BT_can_train(base)

\* A sample of a trajectory of several steps has returned.
C3_Witness ==
    /\ ret.op = "sample" /\ ret.err = "none"
    /\ ppo.max_n_steps > 1

\* C4: sample fails with the assertion exactly when count < capacity, a
\* failed sample changes nothing, and a sample that directly follows a
\* sample that returned fails.
C4_UnderfullSampleFailsAndChangesNothing ==
    [][ret'.op = "sample" =>
          /\ (ret'.err = "AssertionError") <=>
                (ppo.exp_trajectory._count < ppo.max_n_steps)
          /\ (ret'.err # "none" => ppo' = ppo)
          /\ ((ret.op = "sample" /\ ret.err = "none") =>
                ret'.err = "AssertionError")]_vars

\* A sample has failed directly after a sample that returned.
C4_Witness ==
    /\ prev.op = "sample" /\ prev.err = "none"
    /\ ret.op = "sample" /\ ret.err = "AssertionError"

\* C6: the auxiliary values at a populated slot are those handed to the add
\* call that wrote the experience the base buffer holds there.
C6_AuxMatchesTheCallThatWroteTheSlot ==
    \A i \in Slots :
        ppo.exp_trajectory.states[i] # None =>
            /\ ppo.action_log_prob[i] = given_log_prob[i]
            /\ ppo.v_pred[i] = given_v_pred[i]

\* A full trajectory has been written past its end, by calls that handed in
\* different auxiliary values.
C6_Witness ==
    /\ ret.op = "add" /\ ret.err = "none"
    /\ BT_can_train(ppo.exp_trajectory)
    /\ ppo.exp_trajectory.recent_idx < ppo.max_n_steps - 1
    /\ \E i, j \in Slots : ppo.action_log_prob[i] < ppo.action_log_prob[j]

\* C7: an auxiliary slot is populated iff the base slot is; no sample reads
\* an unwritten auxiliary slot (the concatenation never meets a None), and
\* after a sample that returned both are empty.
C7_AuxAndBaseInLockstep ==
    /\ \A i \in Slots :
         /\ (ppo.action_log_prob[i] # None) <=> (ppo.exp_trajectory.states[i] # None)
         /\ (ppo.v_pred[i] # None) <=> (ppo.exp_trajectory.states[i] # None)
    /\ ret.err # "TypeError"
    /\ (ret.op = "sample" /\ ret.err = "none") =>
         /\ Full(ret.batch.action_log_prob) /\ Full(ret.batch.v_pred)
         /\ \A i \in Slots : ppo.exp_trajectory.states[i] = None

\* An add has returned directly after a sample that returned, leaving the
\* trajectory partly filled.
C7_Witness ==
    /\ prev.op = "sample" /\ prev.err = "none"
    /\ ret.op = "add" /\ ret.err = "none"
    /\ ppo.exp_trajectory._count < ppo.max_n_steps

(***************************************************************************)
(* Properties of the agent's bookkeeping (checked under SpecAgent).        *)
(***************************************************************************)

\* C8: an update whose batch has another environment count than the agent
\* fails with the assertion (and only such an update does) and leaves the
\* agent as it was: the clock's global time step and episode, the cumulative
\* reward and both running averages.
C8_WrongEnvCountUpdateChangesNothing ==
    [][ret'.op = "update" =>
          /\ (ret'.err = "AssertionError") <=> (ret'.n # agent.num_envs)
          /\ (ret'.n # agent.num_envs =>
                /\ agent'.clock = agent.clock
                /\ agent'.cumulative_reward = agent.cumulative_reward
                /\ agent'.cumulative_average_reward = agent.cumulative_average_reward
                /\ agent'.episode_average_len = agent.episode_average_len
                /\ agent' = agent)]_vars

\* An update of a wrong environment count has failed on an agent that has
\* finished an episode and is inside the next one.
C8_Witness ==
    /\ ret.op = "update" /\ ret.err = "AssertionError"
    /\ ret.n # agent.num_envs
    /\ agent.clock.episode > 0
    /\ agent.clock.episode_len > 0

\* The global time step after k clock ticks of an agent of n environments.
TimeAfterTicks(n, k) ==
    k * Clock_tick_gloabl_time_step(Clock_init(n)).global_time_step

\* C9: the global time step has ticked once per update that returned, and
\* the episode counter once per update in which environment 0 reported
\* termination, whatever the other environments reported; with num_envs = 1
\* and termination in the 5th update only, the global time step is the
\* number of updates (10 after 10) and episode is 1 from the 5th update on.
C9_OneTimeStepPerUpdateOneEpisodePerTracedTermination ==
    /\ agent.clock.global_time_step = TimeAfterTicks(agent.num_envs, updates)
    /\ agent.clock.episode = traced_terminations
    /\ (agent.num_envs = 1 /\ only_fifth) =>
          /\ agent.clock.global_time_step = updates
          /\ agent.clock.episode = (IF updates >= 5 THEN 1 ELSE 0)

\* The scenario: one environment, 10 updates, termination in the 5th only.
C9_Witness ==
    /\ agent.num_envs = 1
    /\ only_fifth
    /\ updates = 10
    /\ ret.op = "update" /\ ret.err = "none"

\* C18: in an update in which environment 0 reports termination, the
\* cumulative reward recorded into the running average includes that
\* update's reward, the accumulator is 0 afterwards, and the length recorded
\* is the episode's length, taken before the episode counter advances (and
\* episode_len returns to 0); the accumulator holds rewards of environment 0
\* only.
C18_EpisodeIsRecordedWithItsLastStepBeforeTheReset ==
    /\ agent.cumulative_reward = episode_reward
    /\ agent.clock.episode_len = episode_steps
    /\ agent.cumulative_average_reward =
            [count |-> finished, total |-> finished_reward]
    /\ agent.episode_average_len = [count |-> finished, total |-> finished_len]
    /\ agent.clock.episode = finished

\* An agent of two environments has just finished an episode of several
\* steps with a reward in its last step.
C18_Witness ==
    /\ ret.op = "update" /\ ret.err = "none"
    /\ agent.num_envs = 2
    /\ finished = 1 /\ episode_steps = 0
    /\ finished_len = 3 /\ finished_reward = 3

(***************************************************************************)
(* Properties of action selection (checked under SpecSelect).              *)
(***************************************************************************)

\* C10: select_action in TRAIN runs the training path only, with gradients
\* on; in INFERENCE the inference path only, with gradients off, and the
\* gradient mode is back to what it was when the call ends; for any other
\* value it fails with ValueError and runs neither path.
C10_SelectActionDispatchesOnBehaviorType ==
    [][ret'.op = "select_action" =>
          /\ grad_enabled' = grad_enabled
          /\ agent._behavior_type = "TRAIN" =>
                /\ train_calls' = train_calls + 1
                /\ inference_calls' = inference_calls
                /\ ran' = [path |-> "train", grad |-> "on"]
                /\ ret'.err # "ValueError"
          /\ agent._behavior_type = "INFERENCE" =>
                /\ inference_calls' = inference_calls + 1
                /\ train_calls' = train_calls
                /\ ran' = [path |-> "inference", grad |-> "off"]
                /\ ret'.err # "ValueError"
          /\ agent._behavior_type \notin {"TRAIN", "INFERENCE"} =>
                /\ ret'.err = "ValueError"
                /\ train_calls' = train_calls
                /\ inference_calls' = inference_calls
                /\ ran' = NoPath]_vars

\* A call has failed on an unknown behavior type after both paths have run,
\* and gradients are on.
C10_Witness ==
    /\ ret.op = "select_action" /\ ret.err = "ValueError"
    /\ train_calls > 0 /\ inference_calls > 0
    /\ grad_enabled

(***************************************************************************)
(* Properties of network.py (checked under SpecNetwork).                   *)
(***************************************************************************)
\* The call of the given kind has run.
Done(kind) == net_call.kind = kind /\ net_result # <<>>

\* C15: the discrete action layer splits one projection output into one
\* tensor per branch, in branch order: tensor k has the width of branch k
\* and holds the columns that follow those of the branches before it, and
\* the widths sum to the projection width.  With is_logits the entries are
\* the raw scores; without it every row of every branch is normalised on
\* its own: its entries are proportional to the weights of its scores and
\* sum to one.
C15_OneTensorPerBranchNormalisedOnItsOwn ==
    Done("discrete") =>
        LET sizes == net_call.layer.num_discrete_actions
            out == net_call.out
            res == net_result[1]
        IN  /\ Len(res) = Len(sizes)
            /\ Sum(sizes, Len(sizes)) = Len(out[1])
            /\ \A k \in 1..Len(sizes) :
                /\ Len(res[k]) = Len(out)
                /\ \A r \in 1..Len(out) :
                    LET raw == [j \in 1..sizes[k] |->
                                    out[r][Sum(sizes, k - 1) + j]]
                        row == res[k][r]
                    IN  /\ Len(row) = sizes[k]
                        /\ net_call.layer.is_logits => row = raw
                        /\ ~net_call.layer.is_logits =>
                            /\ \A j \in 1..sizes[k] : row[j][2] = row[1][2]
                            /\ Sum([j \in 1..sizes[k] |-> row[j][1]], sizes[k])
                                    = row[1][2]
                            /\ \A i, j \in 1..sizes[k] :
                                    row[i][1] * Pow2(raw[j])
                                        = row[j][1] * Pow2(raw[i])

\* Branch sizes [2, 3] were applied to a projection of width 5 without
\* is_logits, on a batch of two rows that differ.
C15_Witness ==
    /\ Done("discrete")
    /\ net_call.layer.num_discrete_actions = <<2, 3>>
    /\ ~net_call.layer.is_logits
    /\ Len(net_call.out) = 2
    /\ net_call.out[1] = <<1, 0, 0, 1, 1>>
    /\ net_call.out[2] = <<0, 0, 1, 0, 0>>

C19_ZeroGradBackwardClipStepInOrder ==
    Done("train") =>
        LET max_norm == net_call.grad_clip_max_norm
            g == net_call.loss_grad
            used == IF max_norm # None /\ Abs(g) > max_norm
                    THEN (IF g < 0 THEN -max_norm ELSE max_norm)
                    ELSE g
        IN  /\ net_result[1].calls =
                    IF max_norm # None
                    THEN <<"zero_grad", "backward", "clip_grad_norm_", "step">>
                    ELSE <<"zero_grad", "backward", "step">>
            /\ net_result[1].params = net_call.st.params - used
            /\ net_result[1].grad = used

\* A step with a threshold below the norm of the gradient, on a network
\* that still held an older gradient.
C19_Witness ==
    /\ Done("train")
    /\ net_call.grad_clip_max_norm = 2
    /\ net_call.loss_grad = -3
    /\ net_call.st.grad = 4
    /\ net_result[1].params = 2

(***************************************************************************)
(* Properties of log_data (checked under SpecLog).                         *)
(***************************************************************************)
\* C14: a read of log_data reports the cumulative-reward and episode-length
\* metrics exactly when an episode of the traced environment has finished
\* since the previous read: then the values are the averages over the
\* episodes finished since that read, at the global time step and the
\* episode count.  After the read both running averages are empty, and a
\* read that follows a read with no update in between reports neither.
C14_ReadReportsFinishedEpisodesOnceAndResets ==
    ret.op = "log_data" =>
        LET keys == DOMAIN log.ld IN
        /\ "Environment/Cumulative Reward" \in keys <=> log.finished > 0
        /\ "Environment/Episode Length" \in keys <=> log.finished > 0
        /\ log.finished > 0 =>
            /\ log.ld["Environment/Cumulative Reward"] =
                    <<<<log.reward, log.finished>>, log.time>>
            /\ log.ld["Environment/Episode Length"] =
                    <<<<log.len, log.finished>>, log.episodes>>
        /\ agent.cumulative_average_reward = IncrementalAverage_init
        /\ agent.episode_average_len = IncrementalAverage_init
        /\ log.before = log.at =>
                keys \cap {"Environment/Cumulative Reward",
                           "Environment/Episode Length"} = {}

\* A read that reported two finished episodes was followed at once by a
\* second read, which reported neither metric.
C14_Witness ==
    /\ ret.op = "log_data"
    /\ log.before = log.at
    /\ log.before_finished = 2
    /\ log.finished = 0
    /\ "Environment/Cumulative Reward" \notin DOMAIN log.ld
    /\ agent.clock.episode = 2

(***************************************************************************)
(* Properties of state_dict and load_state_dict (checked under SpecDict).  *)
(***************************************************************************)
\* C13: the mapping state_dict returns has the four clock fields and
\* "network" and no other key.  load_state_dict applied to it puts the
\* four clock fields back to their values at the time of state_dict and
\* hands the network the state it had then; the cumulative reward, the two
\* running averages, the behavior type and every other field of the agent
\* are as they were before the load.
C13_LoadRestoresClockAndNetworkOnly ==
    [][ret'.op = "load_state_dict" =>
        /\ DOMAIN saved[1] = {"global_time_step", "episode", "episode_len",
                              "training_step", "network"}
        /\ agent'.clock.global_time_step = at_save[1].global_time_step
        /\ agent'.clock.episode = at_save[1].episode
        /\ agent'.clock.episode_len = at_save[1].episode_len
        /\ agent'.clock.training_step = at_save[1].training_step
        /\ network_state' = at_save[1].network
        /\ agent'.cumulative_reward = agent.cumulative_reward
        /\ agent'.cumulative_average_reward = agent.cumulative_average_reward
        /\ agent'.episode_average_len = agent.episode_average_len
        /\ agent'._behavior_type = agent._behavior_type
        /\ [agent' EXCEPT !.clock = agent.clock] = agent
      ]_vars

\* A load has taken the clock and the network back behind two updates and
\* a training: the averages hold an episode the clock no longer counts,
\* and the behavior type set after the save is kept.
C13_Witness ==
    /\ ret.op = "load_state_dict"
    /\ updates = 2
    /\ at_save[1].global_time_step = 0
    /\ agent.clock.global_time_step = 0
    /\ at_save[1].training_step = 1
    /\ network_state = 1
    /\ agent.cumulative_average_reward.count = 1
    /\ agent.clock.episode = 0
    /\ agent.cumulative_reward = 1
    /\ agent._behavior_type = "INFERENCE"

(***************************************************************************)
(* Properties of the control loop (checked under SpecLoop).                *)
(***************************************************************************)
\* The least number of calls of num_envs experiences that fill capacity.
CallsToFill(capacity, num_envs) == (capacity + num_envs - 1) \div num_envs

====
